---- MODULE Spec2Model ----
(***************************************************************************)
(* Model of remarkable_usb_api: the raw transport with its bounded retry   *)
(* (rm_rest_api_types.py), the tree builder, path resolver, mkdir and      *)
(* upload of RemarkableREST (rest_api.py) and the ls / download commands   *)
(* (cli.py).                                                               *)
(*                                                                         *)
(* Strings.  A name is the string  base ++ ".pdf" * pdf , written          *)
(* [base |-> b, pdf |-> k]; appending ".pdf" adds one to k and stripping   *)
(* a trailing ".pdf" takes one away.  A pathlib.Path is the sequence of    *)
(* its components; Path(".") is the empty sequence.  Python's None is the  *)
(* string "None" where an id is expected and the record NoneV where an     *)
(* object is expected.                                                     *)
(***************************************************************************)
EXTENDS Integers, Sequences, FiniteSets, TLC

VARIABLES remote, pc, cmd, args, stack, call, docs, log, failed, result, err,
          loop, fs, dl, up

vars == <<remote, pc, cmd, args, stack, call, docs, log, failed, result, err,
          loop, fs, dl, up>>

(* ------------------------------ bounds --------------------------------- *)
\* records on the device when only the listing is looked at
MaxRecords == 3
\* records on the device behind a snapshot that is resolved, downloaded or uploaded to
MaxSnapshot == 2
\* ".pdf" suffixes a display name can end with
MaxPdfSuffix == 1
\* largest sizeInBytes and largest local file size
MaxSize == 1
\* largest retries argument besides the default
MaxRetries == 1
\* longest path given to find_file, mkdir and upload
MaxDepth == 2

(* --------------------------- program constants ------------------------- *)
DefaultRetries == 3

NoneId == "None"
NoneV == [kind |-> "None"]
RootFolderId == ""

IdStr == <<"1", "2", "3", "4", "5", "6">>
Bases == {"a"}
Names == [base : Bases, pdf : 0..MaxPdfSuffix]
PlainNames == [base : Bases, pdf : {0}]
TwoNames == [base : {"a", "b"}, pdf : {0}]
Sizes == {<<sz>> : sz \in 1..MaxSize}
OneSize == {<<1>>}
PathNames == [base : Bases, pdf : 0..(MaxPdfSuffix + 1)]

RECURSIVE SeqsUpTo(_, _)
SeqsUpTo(S, n) ==
  IF n = 0 THEN {<<>>}
  ELSE LET shorter == SeqsUpTo(S, n - 1)
       IN shorter \cup {Append(s, x) : s \in {t \in shorter : Len(t) = n - 1}, x \in S}

Paths == SeqsUpTo(PathNames, MaxDepth) \ {<<>>}
\* local files given by name
LocalFiles == SeqsUpTo(Names, 1) \ {<<>>}

(* ------------------------------ strings -------------------------------- *)
\* name.endswith(".pdf")
EndsWithPdf(name) == name.pdf > 0

\* name[:-4] when the name ends with ".pdf"
StripPdf(name) == IF EndsWithPdf(name) THEN [name EXCEPT !.pdf = @ - 1] ELSE name

\* f"{visible_name}.{extension}"
WithExtension(name, extension) ==
  IF extension = "pdf" THEN [name EXCEPT !.pdf = @ + 1] ELSE name

\* Path.suffix == ".pdf"
SuffixIsPdf(fn) == fn # <<>> /\ EndsWithPdf(fn[Len(fn)])

\* Path.parent and Path.name
PathParent(fn) == SubSeq(fn, 1, Len(fn) - 1)
PathName(fn) == fn[Len(fn)]
IsPrefix(p, q) == Len(p) < Len(q) /\ SubSeq(q, 1, Len(p)) = p

\* int(raw.sizeInBytes): the decimal string is its sequence of digits
RECURSIVE IntOf(_)
IntOf(digits) ==
  IF digits = <<>> THEN 0
  ELSE 10 * IntOf(SubSeq(digits, 1, Len(digits) - 1)) + digits[Len(digits)]

(* --------------------------- the remote device ------------------------- *)
FolderIdsOf(recs) == {recs[i].ID : i \in {j \in 1..Len(recs) : recs[j].Type = "CollectionType"}}

RecordsAfter(recs, names, sizes) ==
  LET id == IdStr[Len(recs) + 1]
      parents == {RootFolderId} \cup FolderIdsOf(recs)
  IN  [ID : {id}, Type : {"DocumentType"}, VissibleName : names, Parent : parents,
       sizeInBytes : sizes, pageCount : {1}]
      \cup
      [ID : {id}, Type : {"CollectionType"}, VissibleName : names, Parent : parents]

\* every list of at most n records with unique ids whose parent relation is
\* a tree of folders
RECURSIVE Remotes(_, _, _)
Remotes(n, names, sizes) ==
  IF n = 0 THEN {<<>>}
  ELSE LET shorter == Remotes(n - 1, names, sizes)
       IN shorter \cup UNION {{Append(s, r) : r \in RecordsAfter(s, names, sizes)} :
                               s \in {t \in shorter : Len(t) = n - 1}}

\* the body of a successful POST /documents/<folder_id>
FolderListing(folder_id) == SelectSeq(remote, LAMBDA r : r.Parent = folder_id)

(* ------------------------- Document and Folder ------------------------- *)
Document(raw, parent) ==
  [kind |-> "Document", id_ |-> raw.ID, folder |-> parent,
   visible_name |-> raw.VissibleName, length |-> IntOf(raw.sizeInBytes),
   extension |-> "pdf", page_count |-> raw.pageCount,
   parent_id |-> IF raw.Parent # "" THEN raw.Parent ELSE NoneId]

Folder(raw, parent) ==
  [kind |-> "Folder", id_ |-> raw.ID, folder |-> parent,
   visible_name |-> raw.VissibleName,
   parent_id |-> IF raw.Parent # "" THEN raw.Parent ELSE NoneId]

IsDocument(x) == x.kind = "Document"
IsFolder(x) == x.kind = "Folder"

\* Document.filename and Folder.filename
RECURSIVE filename(_)
filename(e) ==
  IF e.folder = NoneV THEN <<e.visible_name>>
  ELSE IF IsDocument(e)
       THEN Append(filename(e.folder), WithExtension(e.visible_name, e.extension))
       ELSE Append(filename(e.folder), e.visible_name)

\* the first loop of get_documents: one entity per raw record
ParseRecords(raws, parent) ==
  [i \in 1..Len(raws) |->
     IF raws[i].Type = "DocumentType" THEN Document(raws[i], parent)
     ELSE Folder(raws[i], parent)]

(* ---------------------------- path resolver ---------------------------- *)
_find_doc(name, parent_id, ds) ==
  LET n == StripPdf(name)
      res == SelectSeq(ds, LAMBDA d : d.visible_name = n /\ d.parent_id = parent_id)
  IN  IF Len(res) > 0 THEN res[1] ELSE NoneV

RECURSIVE find_file(_, _)
find_file(fn, ds) ==
  IF PathParent(fn) # <<>>
  THEN LET parent == find_file(PathParent(fn), ds)
       IN  IF parent = NoneV THEN NoneV
           ELSE _find_doc(PathName(fn), parent.id_, ds)
  ELSE _find_doc(PathName(fn), NoneId, ds)

has_file(fn, ds) == find_file(fn, ds) # NoneV

(* ------------------------------- state --------------------------------- *)
NoCall == [op |-> "none"]
NoDocs == [known |-> FALSE]
Snapshot(list, recurse) == [known |-> TRUE, list |-> list, recurse |-> recurse]
NoArgs == [none |-> TRUE]
NoLoop == [i |-> 1]
NoDl == <<>>
NoUp == [folder_id |-> NoneId, raw_mkdir |-> 0, listed |-> FALSE, posted |-> 0]

\* no operation has run yet
Blank ==
  /\ pc = "idle"
  /\ cmd = "none"
  /\ args = NoArgs
  /\ stack = <<>>
  /\ call = NoCall
  /\ docs = NoDocs
  /\ log = <<>>
  /\ failed = FALSE
  /\ result = NoneV
  /\ err = ""
  /\ loop = NoLoop
  /\ fs = {}
  /\ dl = NoDl
  /\ up = NoUp

Init ==
  /\ remote \in Remotes(MaxSnapshot, Names, Sizes)
  /\ Blank

\* an operation starts when no other is running
Ready == pc = "idle"

\* what every operation starts from: nothing sent, nothing returned or raised
ResetOperation ==
  /\ log' = <<>>
  /\ failed' = FALSE
  /\ result' = NoneV
  /\ err' = ""
  /\ loop' = NoLoop
  /\ fs' = {}
  /\ dl' = NoDl
  /\ up' = NoUp

(* ----------------------------- tree builder ---------------------------- *)
\* a frame of get_documents that is about to call raw.read_folder
Frame(folder_id, parent) ==
  [folder_id |-> folder_id, parent |-> parent, docs_ |-> <<>>, i |-> 1, subs |-> <<>>]

ReadFolderCall(folder_id, retries) ==
  [op |-> "read_folder", folder_id |-> IF folder_id = NoneId THEN "" ELSE folder_id,
   retries |-> retries, sent |-> 0, budget |-> retries]

\* get_documents(recurse=..., retries=...) called with folder_id=None, parent=None
StartListing(c, recurse, retries) ==
  /\ cmd' = c
  /\ args' = [recurse |-> recurse, retries |-> retries, docs_given |-> FALSE]
  /\ stack' = <<Frame(NoneId, NoneV)>>
  /\ call' = ReadFolderCall(NoneId, retries)
  /\ pc' = "read_folder"
  /\ docs' = NoDocs
  /\ ResetOperation

\* RemarkableREST.get_documents as an operation of its own
GetDocuments ==
  /\ Ready
  /\ \E recurse \in BOOLEAN, retries \in (0..MaxRetries) \cup {DefaultRetries} :
       StartListing("get_documents", recurse, retries)
  /\ UNCHANGED remote

\* faulty variant, for sensitivity of the properties: the retry test off by one
CanRetry_OffByOne(retries) == retries >= 0

\* "not res.ok and retries > 0", for a response that is not ok
CanRetry(retries) == retries > 0

\* RemarkableRESTRaw.read_folder: one request of the current call; the
\* records go to the frame of get_documents that asked for them, or the
\* upload that only wanted the folder listed goes on
ReadFolder ==
  /\ pc = "read_folder"
  /\ \E ok \in BOOLEAN :
       IF ok
       THEN /\ call' = [call EXCEPT !.sent = @ + 1]
            /\ log' = Append(log, call.folder_id)
            /\ IF stack # <<>>
               THEN /\ stack' = [stack EXCEPT ![Len(stack)].docs_ =
                                   ParseRecords(FolderListing(call.folder_id),
                                                stack[Len(stack)].parent)]
                    /\ pc' = "walk"
                    /\ UNCHANGED up
               ELSE /\ up' = [up EXCEPT !.listed = TRUE]
                    /\ pc' = "upload_post"
                    /\ UNCHANGED stack
            /\ UNCHANGED <<failed, err>>
       ELSE IF CanRetry(call.retries)
       THEN /\ call' = [call EXCEPT !.sent = @ + 1, !.retries = @ - 1]
            /\ failed' = TRUE
            /\ UNCHANGED <<log, stack, pc, err, up>>
       ELSE /\ call' = [call EXCEPT !.sent = @ + 1]
            /\ failed' = TRUE
            /\ pc' = "fatal"
            /\ err' = "AssertionError"
            /\ UNCHANGED <<log, stack, up>>
  /\ UNCHANGED <<remote, cmd, args, docs, result, loop, fs, dl>>

\* faulty variant, for sensitivity of the properties: the loop recurses into every entity, not only into Folders
NextFolder_AnyEntity(frame) ==
  IF frame.i <= Len(frame.docs_) THEN frame.i ELSE 0

\* index of the next Folder of docs_ at or after i, or 0
NextFolder(frame) ==
  LET idx == {j \in frame.i..Len(frame.docs_) : IsFolder(frame.docs_[j])}
  IN  IF idx = {} THEN 0 ELSE CHOOSE j \in idx : \A k \in idx : j <= k

\* the recursive call of get_documents for the next Folder of docs_
Descend ==
  /\ pc = "walk"
  /\ args.recurse
  /\ LET frame == stack[Len(stack)]
         j == NextFolder(frame)
     IN  /\ j # 0
         /\ stack' = Append([stack EXCEPT ![Len(stack)].i = j + 1],
                            Frame(frame.docs_[j].id_, frame.docs_[j]))
         /\ call' = ReadFolderCall(frame.docs_[j].id_, args.retries)
  /\ pc' = "read_folder"
  /\ UNCHANGED <<remote, cmd, args, docs, log, failed, result, err, loop, fs, dl, up>>

\* get_documents returns docs_ + subs, to its caller frame or to the operation
Return ==
  /\ pc = "walk"
  /\ LET frame == stack[Len(stack)]
         ret == frame.docs_ \o frame.subs
     IN  /\ ~args.recurse \/ NextFolder(frame) = 0
         /\ IF Len(stack) > 1
            THEN /\ stack' = [SubSeq(stack, 1, Len(stack) - 1)
                                EXCEPT ![Len(stack) - 1].subs = @ \o ret]
                 /\ UNCHANGED <<pc, docs, result>>
            ELSE /\ stack' = <<>>
                 /\ docs' = Snapshot(ret, args.recurse)
                 /\ result' = IF cmd = "get_documents" THEN Snapshot(ret, args.recurse) ELSE result
                 /\ pc' = IF cmd = "get_documents" THEN "done" ELSE cmd
  /\ call' = NoCall
  /\ UNCHANGED <<remote, cmd, args, log, failed, err, loop, fs, dl, up>>

(* ------------------- operations on a snapshot (docs) ------------------- *)
\* find_file, mkdir and upload_document_as_file take docs: the caller's
\* snapshot, or None, and then they list the device first.  The remaining
\* arguments are drawn when the body first uses them.
StartOperation(c, given) ==
  IF given
  THEN /\ docs.known
       /\ cmd' = c
       /\ args' = [docs_given |-> TRUE]
       /\ pc' = c
       /\ ResetOperation
       /\ UNCHANGED <<stack, call, docs>>
  ELSE StartListing(c, TRUE, DefaultRetries)

\* RemarkableREST.find_file(fn, docs=...)
FindFile ==
  /\ Ready
  /\ \E given \in BOOLEAN : StartOperation("find_file", given)
  /\ UNCHANGED remote

FindFileBody ==
  /\ pc = "find_file"
  /\ \E fn \in Paths \cup {filename(docs.list[i]) : i \in 1..Len(docs.list)} :
       /\ args' = [docs_given |-> args.docs_given, fn |-> fn]
       /\ result' = find_file(fn, docs.list)
  /\ pc' = "done"
  /\ UNCHANGED <<remote, cmd, stack, call, docs, log, failed, err, loop, fs, dl, up>>

\* outcomes of mkdir: the Folder returned, or the error raised; raw_mkdir
\* counts the calls of RemarkableRESTRaw.mkdir
Returned(value) == [ok |-> TRUE, value |-> value, err |-> "", raw_mkdir |-> 0]
Raised(e) == [ok |-> FALSE, value |-> NoneV, err |-> e, raw_mkdir |-> 0]

\* RemarkableRESTRaw.mkdir
raw_mkdir(fn) == [ok |-> FALSE, value |-> NoneV, err |-> "mkdir: not implemented", raw_mkdir |-> 1]

\* faulty variant, for sensitivity of the properties: the case of an existing Folder is missing
MkdirLookup_NoFolderCase(fn, exists_ok, parent_id, ds) ==
  LET folder == _find_doc(PathName(fn), parent_id, ds)
  IN  IF folder # NoneV /\ ~exists_ok THEN Raised("folder already exists")
      ELSE IF IsDocument(folder) THEN Raised("mkdir: document of same name exists")
      ELSE raw_mkdir(fn)

\* the lookup and the case analysis that end RemarkableREST.mkdir
MkdirLookup(fn, exists_ok, parent_id, ds) ==
  LET folder == _find_doc(PathName(fn), parent_id, ds)
  IN  IF folder # NoneV /\ ~exists_ok THEN Raised("folder already exists")
      ELSE IF IsDocument(folder) THEN Raised("mkdir: document of same name exists")
      ELSE IF IsFolder(folder)
           THEN IF ~exists_ok THEN Raised("folder already exists") ELSE Returned(folder)
      ELSE raw_mkdir(fn)

RECURSIVE mkdir(_, _, _, _)
\* faulty variant, for sensitivity of the properties: with parents=False a parent that does not resolve is taken for
\* the root
mkdir_ParentOptional(fn, exists_ok, parents, ds) ==
  IF PathParent(fn) # <<>>
  THEN IF parents
       THEN LET parent == mkdir(PathParent(fn), TRUE, TRUE, ds)
            IN  IF ~parent.ok THEN parent
                ELSE MkdirLookup(fn, exists_ok, parent.value.id_, ds)
       ELSE LET parent_ == find_file(PathParent(fn), ds)
            IN  IF parent_ = NoneV THEN MkdirLookup(fn, exists_ok, NoneId, ds)
                ELSE MkdirLookup(fn, exists_ok, parent_.id_, ds)
  ELSE MkdirLookup(fn, exists_ok, NoneId, ds)

\* RemarkableREST.mkdir(fn, exists_ok=..., parents=..., docs=ds)
mkdir(fn, exists_ok, parents, ds) ==
  IF PathParent(fn) # <<>>
  THEN IF parents
       THEN LET parent == mkdir(PathParent(fn), TRUE, TRUE, ds)
            IN  IF ~parent.ok THEN parent
                ELSE MkdirLookup(fn, exists_ok, parent.value.id_, ds)
       ELSE LET parent_ == find_file(PathParent(fn), ds)
            IN  IF parent_ = NoneV THEN Raised("parent does not exist")
                ELSE MkdirLookup(fn, exists_ok, parent_.id_, ds)
  ELSE MkdirLookup(fn, exists_ok, NoneId, ds)

Mkdir ==
  /\ Ready
  /\ \E given \in BOOLEAN : StartOperation("mkdir", given)
  /\ UNCHANGED remote

MkdirBody ==
  /\ pc = "mkdir"
  /\ \E fn \in Paths, exists_ok \in BOOLEAN, parents \in BOOLEAN :
       LET r == mkdir(fn, exists_ok, parents, docs.list)
       IN  /\ args' = [docs_given |-> args.docs_given, fn |-> fn,
                       exists_ok |-> exists_ok, parents |-> parents]
           /\ result' = r.value
           /\ err' = r.err
           /\ up' = [up EXCEPT !.raw_mkdir = r.raw_mkdir]
           /\ pc' = IF r.ok THEN "done" ELSE "fatal"
  /\ UNCHANGED <<remote, cmd, stack, call, docs, log, failed, loop, fs, dl>>

(* -------------------------------- cli ls ------------------------------- *)
\* the attributes f"{doc.document_id} {doc.visible_name} {doc.extension}
\* {doc.page_count}" reads
LsAttributes == {"document_id", "visible_name", "extension", "page_count"}

\* the attributes of a Document or Folder (attrs classes)
Attributes(e) == (DOMAIN e) \ {"kind"}

Ls ==
  /\ Ready
  /\ StartListing("ls", TRUE, DefaultRetries)
  /\ UNCHANGED remote

\* one turn of the loop of ls; result is the list of printed lines
LsPrint ==
  /\ pc = "ls"
  /\ LET i == loop.i
         printed == IF i = 1 THEN <<>> ELSE result
     IN  IF i > Len(docs.list)
         THEN /\ pc' = "done"
              /\ result' = printed
              /\ UNCHANGED <<loop, err>>
         ELSE IF LsAttributes \subseteq Attributes(docs.list[i])
         THEN /\ result' = Append(printed, [a \in LsAttributes |-> docs.list[i][a]])
              /\ loop' = [i |-> i + 1]
              /\ UNCHANGED <<pc, err>>
         ELSE /\ pc' = "fatal"
              /\ err' = "AttributeError"
              /\ result' = printed
              /\ loop' = [i |-> i]
  /\ UNCHANGED <<remote, cmd, args, stack, call, docs, log, failed, fs, dl, up>>

(* ----------------------------- cli download ---------------------------- *)
\* The output directory belongs to the environment: what is at a path is
\* drawn when the command first looks at it and remembered in fs, as are the
\* files the command writes.  size = -1 stands for "no such file".
Absent == -1
FsEntry(path, size, by) == [path |-> path, size |-> size, by |-> by]
Known(path) == \E e \in fs : e.path = path
EntryAt(path) == CHOOSE e \in fs : e.path = path
\* a regular file the command knows of sits on the way to path
UnderFile(path) == \E e \in fs : e.size # Absent /\ IsPrefix(e.path, path)
\* a file the command knows of lies below path: path is a directory
IsDirectory(path) == \E e \in fs : e.size # Absent /\ IsPrefix(path, e.path)
\* unlink(), parent.mkdir() or open() fails
Blocked(path) == UnderFile(path) \/ IsDirectory(path)
\* what out_fn.exists() and out_fn.stat() can report
Observations(path) ==
  IF Known(path) THEN {EntryAt(path)}
  ELSE IF UnderFile(path) THEN {FsEntry(path, Absent, "")}
  ELSE IF IsDirectory(path) THEN {FsEntry(path, sz, "") : sz \in 0..MaxSize}
  ELSE {FsEntry(path, sz, "") : sz \in {Absent} \cup (0..MaxSize)}
Remember(e) == {x \in fs : x.path # e.path} \cup {e}

DownloadCall(document_id, write_to_file, retries) ==
  [op |-> "download", document_id |-> document_id, write_to_file |-> write_to_file,
   retries |-> retries, sent |-> 0, budget |-> retries]

\* faulty variant, for sensitivity of the properties: any existing file is left alone
SameSize_AnyExisting(seen, doc) == seen.size # Absent

\* the test that lets download() leave a document alone
SameSize(seen, doc) == seen.size # Absent /\ seen.size = doc.length

Download ==
  /\ Ready
  /\ StartListing("download", TRUE, DefaultRetries)
  /\ UNCHANGED remote

\* one turn of the loop of download(), up to the call of
\* rm.download_document_as_file
DownloadNext ==
  /\ pc = "download"
  /\ LET i == loop.i
         events == dl
     IN  IF i > Len(docs.list)
         THEN /\ pc' = "done"
              /\ dl' = events
              /\ UNCHANGED <<loop, fs, call>>
         ELSE LET doc == docs.list[i]
                  out_fn == filename(doc)
              IN  IF ~IsDocument(doc)
                  THEN /\ loop' = [i |-> i + 1]
                       /\ dl' = events
                       /\ UNCHANGED <<pc, fs, call>>
                  ELSE \E seen \in Observations(out_fn) :
                         /\ fs' = Remember(seen)
                         /\ IF SameSize(seen, doc)
                            THEN /\ loop' = [i |-> i + 1]
                                 /\ dl' = Append(events, [ev |-> "skip", id |-> doc.id_, seen |-> seen.size])
                                 /\ UNCHANGED <<pc, call>>
                            ELSE /\ loop' = [i |-> i]
                                 /\ dl' = Append(events, [ev |-> "call", id |-> doc.id_, seen |-> seen.size])
                                 /\ call' = DownloadCall(doc.id_, out_fn, DefaultRetries)
                                 /\ pc' = "download_document_as_file"
  /\ UNCHANGED <<remote, cmd, args, stack, docs, log, failed, result, err, up>>

\* RemarkableREST.download_document_as_file(document_id, filename, retries=...)
DownloadDocument ==
  /\ Ready
  /\ \E document_id \in {IdStr[i] : i \in 1..MaxSnapshot}, fn \in LocalFiles,
        retries \in (0..MaxRetries) \cup {DefaultRetries} :
       call' = DownloadCall(document_id, fn, retries)
  /\ cmd' = "download_document_as_file"
  /\ args' = [docs_given |-> FALSE]
  /\ pc' = "download_document_as_file"
  /\ ResetOperation
  /\ UNCHANGED <<remote, stack, docs>>

\* RemarkableRESTRaw.download_document_as_file: one request of the current call
\* and, when it succeeds, the writing of the file
DownloadDocumentAsFile ==
  /\ pc = "download_document_as_file"
  /\ LET out_fn == call.write_to_file
     IN  \E ok \in BOOLEAN :
           IF ok
           THEN /\ call' = [call EXCEPT !.sent = @ + 1]
                /\ log' = Append(log, call.document_id)
                /\ IF Blocked(out_fn)
                   THEN /\ pc' = "fatal"
                        /\ err' = "OSError"
                        /\ UNCHANGED <<fs, dl, loop>>
                   ELSE /\ \E sz \in 0..MaxSize : fs' = Remember(FsEntry(out_fn, sz, call.document_id))
                        /\ dl' = Append(dl, [ev |-> "write", id |-> call.document_id, seen |-> Absent])
                        /\ loop' = [i |-> loop.i + 1]
                        /\ pc' = IF cmd = "download" THEN "download" ELSE "done"
                        /\ err' = err
                /\ UNCHANGED failed
           ELSE IF CanRetry(call.retries)
           THEN /\ call' = [call EXCEPT !.sent = @ + 1, !.retries = @ - 1]
                /\ failed' = TRUE
                /\ UNCHANGED <<log, pc, err, fs, dl, loop>>
           ELSE /\ call' = [call EXCEPT !.sent = @ + 1]
                /\ failed' = TRUE
                /\ pc' = "fatal"
                /\ err' = "AssertionError"
                /\ UNCHANGED <<log, fs, dl, loop>>
  /\ UNCHANGED <<remote, cmd, args, stack, docs, result, up>>

(* -------------------------------- upload ------------------------------- *)
PdfPaths == {fn \in Paths : SuffixIsPdf(fn)}

\* RemarkableREST.upload_document_as_file(fn_disc, fn_rm, docs=...): the two
\* assertions, then the listing when docs is None
UploadDocumentAsFile ==
  /\ Ready
  /\ \E fn_disc \in LocalFiles, fn_rm \in Paths, given \in BOOLEAN :
       IF SuffixIsPdf(fn_disc) /\ SuffixIsPdf(fn_rm)
       THEN StartOperation("upload_document_as_file", given)
       ELSE /\ given => docs.known
            /\ cmd' = "upload_document_as_file"
            /\ args' = [docs_given |-> given, fn_disc |-> fn_disc, fn_rm |-> fn_rm]
            /\ pc' = "fatal"
            /\ err' = "AssertionError"
            /\ docs' = IF given THEN docs ELSE NoDocs
            /\ UNCHANGED <<stack, call, log, failed, result, loop, fs, dl, up>>
  /\ UNCHANGED remote

\* faulty variant, for sensitivity of the properties: a parent that does not resolve to a Folder is taken for the root
UploadParent_RootFallback(fn_rm, ds) ==
  LET parent == IF PathParent(fn_rm) # <<>>
                THEN mkdir(PathParent(fn_rm), TRUE, TRUE, ds)
                ELSE Returned([id_ |-> NoneId])
  IN  IF parent.ok THEN parent ELSE Returned([id_ |-> NoneId])

\* parent_id of upload_document_as_file: the Folder mkdir returns for
\* fn_rm.parent, or None for the root
UploadParent(fn_rm, ds) ==
  IF PathParent(fn_rm) # <<>>
  THEN mkdir(PathParent(fn_rm), TRUE, TRUE, ds)
  ELSE Returned([id_ |-> NoneId])

\* the rest of RemarkableREST.upload_document_as_file: mkdir of the parent,
\* then RemarkableRESTRaw.upload_document_as_file up to its read_folder
UploadBody ==
  /\ pc = "upload_document_as_file"
  /\ \E fn_disc \in {f \in LocalFiles : SuffixIsPdf(f)}, fn_rm \in PdfPaths :
       LET parent == UploadParent(fn_rm, docs.list)
       IN  /\ args' = [docs_given |-> args.docs_given, fn_disc |-> fn_disc, fn_rm |-> fn_rm]
           /\ IF parent.ok
              THEN /\ call' = ReadFolderCall(parent.value.id_, DefaultRetries)
                   /\ up' = [folder_id |-> parent.value.id_, raw_mkdir |-> 0,
                             listed |-> FALSE, posted |-> 0]
                   /\ pc' = "read_folder"
                   /\ UNCHANGED err
              ELSE /\ up' = [folder_id |-> NoneId, raw_mkdir |-> parent.raw_mkdir,
                             listed |-> FALSE, posted |-> 0]
                   /\ pc' = "fatal"
                   /\ err' = parent.err
                   /\ UNCHANGED call
  /\ UNCHANGED <<remote, cmd, stack, docs, log, failed, result, loop, fs, dl>>

\* the end of RemarkableRESTRaw.upload_document_as_file: read the local file
\* and POST it
UploadPost ==
  /\ pc = "upload_post"
  /\ \E readable \in BOOLEAN, ok \in BOOLEAN :
       IF ~readable
       THEN /\ pc' = "fatal"
            /\ err' = "FileNotFoundError"
            /\ UNCHANGED up
       ELSE /\ up' = [up EXCEPT !.posted = @ + 1]
            /\ pc' = IF ok THEN "done" ELSE "fatal"
            /\ err' = IF ok THEN err ELSE "error uploading"
  /\ call' = NoCall
  /\ UNCHANGED <<remote, cmd, args, stack, docs, log, failed, result, loop, fs, dl>>
\* the operation has returned or raised: control is back at the caller, which
\* keeps the snapshot it may have got
Finish ==
  /\ pc \in {"done", "fatal"}
  /\ pc' = "idle"
  /\ cmd' = "none"
  /\ args' = NoArgs
  /\ stack' = <<>>
  /\ call' = NoCall
  /\ ResetOperation
  /\ UNCHANGED <<remote, docs>>

Next ==
  \/ GetDocuments
  \/ ReadFolder
  \/ Descend
  \/ Return
  \/ FindFile
  \/ FindFileBody
  \/ Mkdir
  \/ MkdirBody
  \/ Ls
  \/ LsPrint
  \/ Download
  \/ DownloadNext
  \/ DownloadDocument
  \/ DownloadDocumentAsFile
  \/ UploadDocumentAsFile
  \/ UploadBody
  \/ UploadPost
  \/ Finish

Spec == Init /\ [][Next]_vars

(* the listing alone: names and sizes play no part in it *)
InitListing ==
  /\ remote \in Remotes(MaxRecords, PlainNames, OneSize)
  /\ Blank

NextListing ==
  \/ GetDocuments
  \/ ReadFolder
  \/ Descend
  \/ Return
  \/ Finish

SpecListing == InitListing /\ [][NextListing]_vars

(* find_file and mkdir on snapshots: sizes play no part *)
InitResolve ==
  /\ remote \in Remotes(MaxSnapshot, Names, OneSize)
  /\ Blank

NextResolve ==
  \/ GetDocuments
  \/ ReadFolder
  \/ Descend
  \/ Return
  \/ FindFile
  \/ FindFileBody
  \/ Mkdir
  \/ MkdirBody
  \/ Finish

SpecResolve == InitResolve /\ [][NextResolve]_vars

(* the transport calls with a retry budget, and the download command *)
InitDownload ==
  /\ remote \in Remotes(MaxSnapshot, TwoNames, Sizes)
  /\ Blank

NextDownload ==
  \/ GetDocuments
  \/ ReadFolder
  \/ Descend
  \/ Return
  \/ Download
  \/ DownloadNext
  \/ DownloadDocument
  \/ DownloadDocumentAsFile
  \/ Finish

SpecDownload == InitDownload /\ [][NextDownload]_vars

(* upload_document_as_file *)
InitUpload ==
  /\ remote \in Remotes(MaxSnapshot, Names, OneSize)
  /\ Blank

NextUpload ==
  \/ GetDocuments
  \/ ReadFolder
  \/ Descend
  \/ Return
  \/ UploadDocumentAsFile
  \/ UploadBody
  \/ UploadPost
  \/ Finish

SpecUpload == InitUpload /\ [][NextUpload]_vars

(* ======================================================================= *)
(*                               properties                                *)
(* ======================================================================= *)
Range(f) == {f[x] : x \in DOMAIN f}
Prefixes(fn) == {SubSeq(fn, 1, k) : k \in 1..Len(fn)}
Entities == Range(docs.list)

\* the folders of the device in depth-first order, parents first and
\* children in the order the device lists them
ChildFolders(f) ==
  SelectSeq(remote, LAMBDA r : r.Parent = f /\ r.Type = "CollectionType")
RECURSIVE Preorder(_), PreorderAll(_)
Preorder(f) == <<f>> \o PreorderAll(ChildFolders(f))
PreorderAll(rs) ==
  IF rs = <<>> THEN <<>> ELSE Preorder(Head(rs).ID) \o PreorderAll(Tail(rs))
ParentOf(id) == (CHOOSE r \in Range(remote) : r.ID = id).Parent

\* mkdir has returned or raised, on the snapshot docs
MkdirOver == cmd = "mkdir" /\ pc \in {"done", "fatal"} /\ docs.known /\ "fn" \in DOMAIN args

\* C1: for every entity E of a recursive snapshot, find_file(E.filename,
\* docs) is E itself.
C1_FindFileInvertsFilename ==
  (docs.known /\ docs.recurse) =>
    \A i \in 1..Len(docs.list) :
      find_file(filename(docs.list[i]), docs.list) = docs.list[i]

\* C2: the filename of every Document, one directly under the root
\* included, is its parent Folder's path (empty for the root) joined with
\* "<visible_name>.<extension>", so its last component ends with ".pdf".
C2_DocumentFilenameHasExtension ==
  docs.known =>
    \A d \in {e \in Entities : IsDocument(e)} :
      /\ filename(d) = Append(IF d.folder = NoneV THEN <<>> ELSE filename(d.folder),
                              [d.visible_name EXCEPT !.pdf = @ + 1])
      /\ SuffixIsPdf(filename(d))

\* C3 as stated: when no entity exists at fn, mkdir raises "mkdir: not
\* implemented" whatever exists_ok and parents are.
C3_AlwaysNotImplemented ==
  (MkdirOver /\ find_file(args.fn, docs.list) = NoneV) =>
    (pc = "fatal" /\ err = "mkdir: not implemented")

\* the error mkdir raises for a path that does not resolve
C3_Error(fn, parents, ds) ==
  IF parents
  THEN IF \E p \in Prefixes(PathParent(fn)) : IsDocument(find_file(p, ds))
       THEN "mkdir: document of same name exists"
       ELSE "mkdir: not implemented"
  ELSE IF PathParent(fn) # <<>> /\ find_file(PathParent(fn), ds) = NoneV
       THEN "parent does not exist"
       ELSE "mkdir: not implemented"

\* C3 amended: when no entity exists at fn, mkdir never returns a Folder and
\* raises a fatal error, which is "mkdir: not implemented" except that it is
\* "parent does not exist" for parents=False with a parent path that does
\* not resolve, and "mkdir: document of same name exists" for parents=True
\* with an ancestor path that resolves to a Document.
C3_NeverCreates ==
  (MkdirOver /\ find_file(args.fn, docs.list) = NoneV) =>
    /\ pc = "fatal"
    /\ result = NoneV
    /\ err = C3_Error(args.fn, args.parents, docs.list)
    /\ (err = "mkdir: not implemented") = (up.raw_mkdir = 1)

C3_Witness ==
  /\ MkdirOver
  /\ find_file(args.fn, docs.list) = NoneV
  /\ Len(args.fn) = 2
  /\ ~args.parents
  /\ find_file(PathParent(args.fn), docs.list) = NoneV
  /\ err = "parent does not exist"

C5_DocumentCollision ==
  (MkdirOver /\ IsDocument(find_file(args.fn, docs.list))) =>
    (pc = "fatal" /\ err = "mkdir: document of same name exists" /\ up.raw_mkdir = 0)

\* C6: a list-folder or download call with retry budget n sends at most n+1
\* requests; it stops at the first response that is ok and uses it; when all
\* n+1 fail it raises, nothing more is sent, and a listing under way is
\* abandoned without a result.  Using a download's response is writing the
\* file, which fails only when the local path cannot be written.
C6_RetryBudget ==
  /\ []( /\ call # NoCall => call.sent <= call.budget + 1
         /\ pc \in {"read_folder", "download_document_as_file"}
              => (call.sent = call.budget - call.retries /\ call.sent <= call.budget)
         /\ (pc = "fatal" /\ call # NoCall /\ err = "AssertionError")
              => (call.sent = call.budget + 1 /\ failed)
         /\ (pc = "fatal" /\ stack # <<>>)
              => (err = "AssertionError" /\ docs = NoDocs /\ result = NoneV) )
  /\ [][ /\ Len(log') = Len(log) + 1
              => /\ call'.sent = call.sent + 1
                 /\ pc' \notin {"read_folder", "download_document_as_file"}
                 /\ err' # "AssertionError"
                 /\ pc = "read_folder"
                      => /\ pc' # "fatal"
                         /\ stack'[Len(stack')].docs_ =
                              ParseRecords(FolderListing(call.folder_id), stack[Len(stack)].parent)
                 /\ pc = "download_document_as_file"
                      => IF Blocked(call.write_to_file)
                         THEN pc' = "fatal" /\ err' = "OSError" /\ fs' = fs
                         ELSE /\ pc' # "fatal"
                              /\ \E e \in fs' : e.path = call.write_to_file /\ e.by = call.document_id
         /\ (call # NoCall /\ call' # NoCall /\ call'.sent = call.sent + 1 /\ Len(log') = Len(log))
              => /\ failed'
                 /\ IF call.sent < call.budget
                    THEN pc' = pc /\ call'.budget = call.budget /\ UNCHANGED <<stack, docs>>
                    ELSE pc' = "fatal"
         /\ pc = "fatal" => ~(ReadFolder \/ DownloadDocumentAsFile) ]_vars

C6_Witness ==
  /\ pc = "fatal"
  /\ cmd = "get_documents"
  /\ Len(stack) = 2
  /\ call.budget = DefaultRetries
  /\ call.sent = DefaultRetries + 1
  /\ Len(log) = 1

\* C7: without transport failures get_documents(recurse=True) requests the
\* root and every Folder exactly once, one request at a time in depth-first
\* order, a folder only after the request listing its parent has been
\* answered; with recurse=False it sends exactly one request.
C7_OneRequestPerFolder ==
  (cmd = "get_documents" /\ ~failed) =>
    LET order == IF args.recurse THEN Preorder(RootFolderId) ELSE <<RootFolderId>>
    IN  /\ Len(log) <= Len(order)
        /\ log = SubSeq(order, 1, Len(log))
        /\ pc = "read_folder"
             => (Len(log) < Len(order) /\ call.folder_id = order[Len(log) + 1] /\ call.sent = 0)
        /\ \A k \in 2..Len(log) : \E j \in 1..(k - 1) : log[j] = ParentOf(log[k])
        /\ pc = "done"
             => /\ log = order
                /\ Len(log) = IF args.recurse THEN 1 + Cardinality(FolderIdsOf(remote)) ELSE 1

C7_Witness ==
  /\ cmd = "get_documents"
  /\ pc = "done"
  /\ ~failed
  /\ args.recurse
  /\ log = <<RootFolderId, "1", "2", "3">>
  /\ remote[2].Parent = "1"
  /\ remote[3].Parent = RootFolderId

EventsOf(id) == SelectSeq(dl, LAMBDA e : e.id = id)
\* what the download command did for Document d agrees with what it saw
C8_Handled(d) ==
  LET ev == EventsOf(d.id_)
      requests == SelectSeq(log, LAMBDA x : x = d.id_)
  IN  \/ /\ Len(ev) = 1
         /\ ev[1].ev = "skip"
         /\ ev[1].seen = d.length
         /\ requests = <<>>
      \/ /\ Len(ev) = 2
         /\ ev[1].ev = "call"
         /\ ev[1].seen # d.length
         /\ ev[2].ev = "write"
         /\ Len(requests) = 1

C9_LsPrintsEveryEntity ==
  (cmd = "ls" /\ docs.known /\ pc \in {"done", "fatal"}) =>
    (pc = "done" /\ Len(result) = Len(docs.list))

\* C10: the upload request is sent only after both names have the .pdf
\* suffix, every folder on fn_rm's parent path has resolved to a Folder and
\* the parent folder (the root when there is none) has been listed; when one
\* of these fails the operation ends in a fatal error with no upload sent.
C10_UploadFailClosed ==
  cmd = "upload_document_as_file" =>
    /\ up.posted <= 1
    /\ up.posted > 0 =>
         /\ SuffixIsPdf(args.fn_disc)
         /\ SuffixIsPdf(args.fn_rm)
         /\ \A p \in Prefixes(PathParent(args.fn_rm)) : IsFolder(find_file(p, docs.list))
         /\ up.raw_mkdir = 0
         /\ up.listed
         /\ log # <<>>
         /\ log[Len(log)] = IF PathParent(args.fn_rm) = <<>> THEN RootFolderId
                            ELSE find_file(PathParent(args.fn_rm), docs.list).id_
    /\ (pc = "fatal" /\ err # "error uploading") => up.posted = 0
    /\ pc = "done" => up.posted = 1

C10_Witness ==
  /\ cmd = "upload_document_as_file"
  /\ pc = "done"
  /\ up.posted = 1
  /\ Len(args.fn_rm) = 2
  /\ failed

====
